---- MODULE Spec2Model ----
(***************************************************************************)
(* Model of the `deferred` crate: the resumable execution engine           *)
(* (src/src/deferred.rs), its context (src/src/context.rs), the            *)
(* identifier-keyed manager (src/src/deferred_manager.rs) and the          *)
(* type-erased Value (src/src/value.rs).                                   *)
(*                                                                         *)
(* A part (`Part<S> = fn(Context<S>) -> Context<S>`) is a capture-free     *)
(* function pointer, so a program owns a finite catalogue of parts.  A     *)
(* part is modelled by what it computes: an arithmetic update of the       *)
(* state, wrapped either as Context::State or as a nested Deferred built   *)
(* from that state and an own list of parts.                               *)
(***************************************************************************)
EXTENDS Integers, Sequences, FiniteSets, TLC

\* ------------------------------------------------------------------ bounds
\* longest list of parts handed to Deferred::new for the outer execution
MaxParts == 3
\* longest list of parts of a generated nested execution
MaxSub == 2
\* largest initial state
MaxInit == 1
\* number of run() calls on one manager
MaxRuns == 2
\* largest payload boxed in a Value, per payload type
MaxPayload == 2

VARIABLES
    d,            \* engine: the execution the caller holds (an Option)
    orig,         \* engine: arguments of Deferred::new that built it
    ticks,        \* engine: number of resume() calls that returned Some
    seen,         \* engine: state() observed after new and after each Some
    last,         \* engine: the last call, its receiver, outcome and invoked parts
    trace,        \* engine: the parts invoked since Deferred::new, in order
    registry,     \* manager: HashMap<Id, Deferred<S>>
    id_generator, \* manager: next identifier
    issued,       \* driver: identifiers returned by run(), in call order
    given,        \* driver: per identifier, the execution handed to run()
    untouched,    \* driver: identifiers no operation was applied to since run()
    invoked,      \* driver: per identifier, the parts invoked so far
    cancelled,    \* driver: per cancelled identifier, Len(invoked) at cancel
    mlast,        \* driver: the last manager call, the manager before it, what it returned
    aborted,      \* driver: a call panicked (the driver is dead)
    val,          \* value: the Value the caller holds (an Option)
    vlast         \* value: the last Value call, its receiver and what it returned

vars == <<d, orig, ticks, seen, last, trace,
          registry, id_generator, issued, given, untouched, invoked, cancelled,
          mlast, aborted, val, vlast>>
engineVars == <<d, orig, ticks, seen, last, trace>>
managerVars == <<registry, id_generator, issued, given, untouched, invoked, cancelled,
                 mlast, aborted>>
valueVars == <<val, vlast>>

\* ------------------------------------------------------------------ helpers
SeqUpTo(S, n) == UNION {[1..k -> S] : k \in 0..n}

Some(x) == [some |-> TRUE, value |-> x]
None == [some |-> FALSE]

\* ------------------------------------------------------------------ Context
\* Context::State(state)
State(s) == [tag |-> "State", state |-> s]

\* impl Into<Context<S>> for Deferred<S>: Context::Deferred(Box::new(self))
into(self) == [tag |-> "Deferred", deferred |-> self]

is_state(c) == c.tag = "State"

is_deferred(c) == c.tag = "Deferred"

\* Deferred::new that fills the VecDeque back to front
new_reversed(state, parts) ==
    [parts |-> [i \in 1..Len(parts) |-> parts[Len(parts) + 1 - i]], context |-> State(state)]

\* Deferred::new: the parts go to a VecDeque in the given order, the context
\* starts as Context::State(state)
new(state, parts) == [parts |-> parts, context |-> State(state)]

\* ------------------------------------------------------------------ parts
\* the arithmetic of the closures used by the tests and doc examples
ApplyOp(op, v) ==
    CASE op = "id"   -> v
      [] op = "add1" -> v + 1
      [] op = "add2" -> v + 2
      [] op = "mul2" -> v * 2
      [] op = "mul3" -> v * 3

\* |c| state!(op(c.state()))
StatePart(op) == [kind |-> "state", op |-> op]

\* |c| subdeferred!(op(c.state()), [parts]), i.e. Deferred::new(..).into()
SubPart(op, parts) == [kind |-> "deferred", op |-> op, parts |-> parts]

RECURSIVE can_resume(_)
RECURSIVE resume(_)
RECURSIVE consume(_)
RECURSIVE Context_state(_)
RECURSIVE get_state(_)

\* can_resume() that looks at the own queue only
can_resume_own_queue(self) == self.parts # <<>>

\* Deferred::can_resume
can_resume(self) ==
    IF is_state(self.context)
    THEN self.parts # <<>>
    ELSE can_resume(self.context.deferred) \/ self.parts # <<>>

\* get_state() that answers only for a plain state
get_state_shallow(c) == IF is_state(c) THEN Some(c.state) ELSE None

\* Context::get_state, and Deferred::state which delegates to it
get_state(c) ==
    IF is_state(c) THEN Some(c.state) ELSE get_state(c.deferred.context)

state(self) == get_state(self.context)

\* The call part(input): the part reads its input with Context::state, which
\* runs a nested execution to completion, and wraps the new state.
\* Result: [outcome: "Context" | "Panic", context, log]
Invoke(part, input) ==
    LET s == Context_state(input) IN
    IF s.outcome = "Panic" THEN [outcome |-> "Panic", log |-> s.log]
    ELSE LET v == ApplyOp(part.op, s.value) IN
         [outcome |-> "Context",
          context |-> IF part.kind = "state" THEN State(v)
                      ELSE into(new(v, part.parts)),
          log |-> s.log]

\* log entry of one invoked part: the part, the tag of its input and of its result
Event(part, input, output) ==
    [part |-> part, input |-> input.tag, result |-> output.tag]

\* r with the log `log` put before its own
After(log, r) == [r EXCEPT !.log = log \o r.log]

\* what a consume() call gave back: the value, or nothing when it panicked
Returned(r) == IF r.outcome = "Value" THEN Some(r.value) ELSE None

\* VecDeque::pop_front at the head of resume(): the front part and the rest
pop_back(parts) ==
    IF parts = <<>> THEN None
    ELSE Some([part |-> parts[Len(parts)], rest |-> SubSeq(parts, 1, Len(parts) - 1)])

pop_front(parts) ==
    IF parts = <<>> THEN None
    ELSE Some([part |-> Head(parts), rest |-> Tail(parts)])

\* resume(), Context::State arm, after self.context = context: a nested
\* execution is entered within the same call, a plain state ends the call
installed_always_some(next, log) == [outcome |-> "Some", d |-> next, log |-> log]

installed(next, log) ==
    IF is_deferred(next.context)
    THEN After(log, resume(next))
    ELSE [outcome |-> "Some", d |-> next, log |-> log]

\* resume(), Context::State arm with an empty queue: None
exhausted_some(self) == [outcome |-> "Some", d |-> self, log |-> <<>>]

exhausted(self) == [outcome |-> "None", log |-> <<>>]

\* a collapse that ends the call: the final value of the nested execution
\* is installed and returned as this call's result
collapsed_ends_call(self, c) ==
    [outcome |-> "Some", d |-> [self EXCEPT !.context = State(c.value)], log |-> c.log]

\* an exhausted nested execution that is not collapsed: the next part is
\* handed the context that still holds it
collapsed_invokes_next(self, c) ==
    LET front == pop_front(self.parts) IN
    IF front.some
    THEN LET part == front.value.part
             r == Invoke(part, self.context)
         IN  installed([parts |-> front.value.rest, context |-> r.context],
                       c.log \o r.log \o <<Event(part, self.context, r.context)>>)
    ELSE exhausted(self)

\* resume(), Context::Deferred arm with an exhausted nested execution:
\* self.context = Context::State(deferred.consume()); self.resume()
collapsed(self, c) == After(c.log, resume([self EXCEPT !.context = State(c.value)]))

\* Deferred::resume.  Result: [outcome: "Some" | "None" | "Panic", d, log]
resume(self) ==
    IF is_state(self.context)
    THEN LET front == pop_front(self.parts) IN
         IF front.some
         THEN LET part == front.value.part
                  r == Invoke(part, self.context)
              IN  IF r.outcome = "Panic" THEN [outcome |-> "Panic", log |-> r.log]
                  ELSE installed([parts |-> front.value.rest, context |-> r.context],
                                 r.log \o <<Event(part, self.context, r.context)>>)
         ELSE exhausted(self)
    ELSE LET deferred == self.context.deferred IN
         IF can_resume(deferred)
         THEN LET r == resume(deferred) IN
              IF r.outcome = "Some"
              THEN [outcome |-> "Some",
                    d |-> [self EXCEPT !.context = into(r.d)],
                    log |-> r.log]
              ELSE r
         ELSE LET c == consume(deferred) IN
              IF c.outcome = "Panic" THEN c ELSE collapsed(self, c)

\* consume() with `if` in place of `while`
consume_once(self) ==
    IF can_resume(self)
    THEN LET r == resume(self) IN
         IF r.outcome = "Some" THEN After(r.log, Context_state(r.d.context))
         ELSE [outcome |-> "Panic", log |-> r.log]
    ELSE Context_state(self.context)

\* Deferred::consume.  Result: [outcome: "Value" | "Panic", value, log];
\* Panic is the unwrap() of a None returned by resume()
consume(self) ==
    IF can_resume(self)
    THEN LET r == resume(self) IN
         IF r.outcome = "Some" THEN After(r.log, consume(r.d))
         ELSE [outcome |-> "Panic", log |-> r.log]
    ELSE Context_state(self.context)

\* Context::state
Context_state(c) ==
    IF is_state(c)
    THEN [outcome |-> "Value", value |-> c.state, log |-> <<>>]
    ELSE consume(c.deferred)

\* ------------------------------------------------------------------ catalogue
\* parts that return Context::State
PlainParts == {StatePart(op) : op \in {"add1", "add2", "mul2"}}

\* the list of parts of foo2 in the tests (x2, x3), continued alternately
InnerBody(m) == [i \in 1..m |-> StatePart(IF i % 2 = 1 THEN "mul2" ELSE "mul3")]

\* parts that return a nested execution of m plain parts, for each m
SubParts == {SubPart("id", InnerBody(m)) : m \in 0..MaxSub}

\* parts whose nested execution itself has a part returning a nested execution
DeepParts ==
    { SubPart("id", <<SubPart("id", <<>>)>>),
      SubPart("add1", <<SubPart("id", <<StatePart("mul2")>>), StatePart("mul3")>>),
      SubPart("id", <<StatePart("mul2"), SubPart("id", <<>>)>>) }

Parts == PlainParts \cup SubParts \cup DeepParts

\* ------------------------------------------------------------------ engine
NoCall == [op |-> "new", outcome |-> "New", log |-> <<>>]

\* DeferredManager::default, and a driver that has called nothing yet
InitManager ==
    /\ registry = << >>
    /\ id_generator = 0
    /\ issued = <<>>
    /\ given = << >>
    /\ untouched = {}
    /\ invoked = << >>
    /\ cancelled = << >>
    /\ mlast = NoCall
    /\ aborted = FALSE

\* no Value has been built
InitNoValue ==
    /\ val = None
    /\ vlast = NoCall

\* let d = Deferred::new(s0, parts)
InitEngine ==
    /\ \E s0 \in 1..MaxInit, parts \in SeqUpTo(Parts, MaxParts) :
          /\ orig = [state |-> s0, parts |-> parts]
          /\ d = Some(new(s0, parts))
          /\ seen = <<state(new(s0, parts))>>
    /\ ticks = 0
    /\ trace = <<>>
    /\ last = NoCall
    /\ InitManager
    /\ InitNoValue

\* let d = d.resume() : the caller keeps what the call returns
CallResume ==
    /\ d.some
    /\ LET r == resume(d.value) IN
       /\ last' = [op |-> "resume", pre |-> d.value, outcome |-> r.outcome, log |-> r.log]
       /\ trace' = trace \o [k \in 1..Len(r.log) |-> r.log[k].part]
       /\ IF r.outcome = "Some"
          THEN /\ d' = Some(r.d)
               /\ ticks' = ticks + 1
               /\ seen' = Append(seen, state(r.d))
          ELSE /\ d' = None
               /\ UNCHANGED <<ticks, seen>>
    /\ UNCHANGED <<orig, managerVars, valueVars>>

\* let v = d.consume()
CallConsume ==
    /\ d.some
    /\ LET r == consume(d.value) IN
       /\ last' = [op |-> "consume", pre |-> d.value, outcome |-> r.outcome, log |-> r.log,
                   value |-> Returned(r)]
       /\ trace' = trace \o [k \in 1..Len(r.log) |-> r.log[k].part]
    /\ d' = None
    /\ UNCHANGED <<orig, ticks, seen, managerVars, valueVars>>

\* a part's view: let v = c.state(), for the context of d or for d.into()
CallContextState ==
    /\ d.some
    /\ \E c \in {d.value.context, into(d.value)} :
          LET r == Context_state(c) IN
          /\ last' = [op |-> "context_state", pre |-> c, outcome |-> r.outcome, log |-> r.log,
                       value |-> Returned(r)]
          /\ trace' = trace \o [k \in 1..Len(r.log) |-> r.log[k].part]
    /\ d' = None
    /\ UNCHANGED <<orig, ticks, seen, managerVars, valueVars>>

NextEngine == CallResume \/ CallConsume \/ CallContextState

SpecEngine == InitEngine /\ [][NextEngine]_vars

\* ------------------------------------------------------------------ manager
\* an insert that stores the value under every key of the map
Insert_everywhere(map, k, v) == [x \in DOMAIN map \cup {k} |-> v]

\* HashMap::insert and HashMap::remove on a map kept as a function
Insert(map, k, v) == [x \in DOMAIN map \cup {k} |-> IF x = k THEN v ELSE map[x]]

\* HashMap::clear in place of HashMap::remove
Remove_all(map, k) == << >>

Remove(map, k) == [x \in DOMAIN map \ {k} |-> map[x]]

\* DeferredManager::has
has(id) == id \in DOMAIN registry

\* the parts of a log, appended to the parts invoked so far for id
Invoked(id, log) ==
    Insert(invoked, id,
           (IF id \in DOMAIN invoked THEN invoked[id] ELSE <<>>)
               \o [i \in 1..Len(log) |-> log[i].part])

\* executions a driver hands to run(): an execution without parts, the
\* chains of the tests' shapes, a chain whose part returns a nested execution
\* and one whose part returns a nested execution without parts
FreshExecutions ==
    { new(1, <<>>),
      new(1, <<StatePart("add1")>>),
      new(1, <<StatePart("add1"), StatePart("add2")>>),
      new(1, <<SubPart("id", InnerBody(2))>>),
      new(1, <<SubPart("id", <<>>)>>) }

\* an execution may also be handed over after a first resume()
ResumedOnce ==
    {resume(x).d : x \in {y \in FreshExecutions :
                             resume(y).outcome = "Some" /\ can_resume(resume(y).d)}}

RunSet == FreshExecutions \cup ResumedOnce

\* identifiers a driver may pass: every issued one and one never issued
Ids == 0..MaxRuns

\* run() that takes the number of registered executions as the identifier
run_count_as_id(deferred) ==
    /\ ~aborted
    /\ id_generator < MaxRuns
    /\ LET id == Cardinality(DOMAIN registry) IN
       /\ id_generator' = id_generator + 1
       /\ registry' = Insert(registry, id, deferred)
       /\ issued' = Append(issued, id)
       /\ given' = Insert(given, id, deferred)
       /\ untouched' = untouched \cup {id}
       /\ invoked' = Insert(invoked, id, <<>>)
       /\ mlast' = [op |-> "run", pre |-> registry, gen |-> id_generator, id |-> id, had |-> has(id), outcome |-> "Id",
                    ret |-> id, log |-> << >>]
    /\ UNCHANGED <<cancelled, aborted, engineVars, valueVars>>

\* DeferredManager::run
run(deferred) ==
    /\ ~aborted
    /\ id_generator < MaxRuns
    /\ LET id == id_generator IN
       /\ id_generator' = id_generator + 1
       /\ registry' = Insert(registry, id, deferred)
       /\ issued' = Append(issued, id)
       /\ given' = Insert(given, id, deferred)
       /\ untouched' = untouched \cup {id}
       /\ invoked' = Insert(invoked, id, <<>>)
       /\ mlast' = [op |-> "run", pre |-> registry, gen |-> id_generator, id |-> id, had |-> has(id), outcome |-> "Id",
                    ret |-> id, log |-> << >>]
    /\ UNCHANGED <<cancelled, aborted, engineVars, valueVars>>

\* cancel() that reports the entry without removing it
cancel_keeps_entry(id) ==
    /\ ~aborted
    /\ UNCHANGED registry
    /\ mlast' = [op |-> "cancel", pre |-> registry, gen |-> id_generator, id |-> id, had |-> has(id), outcome |-> "Bool",
                 ret |-> id \in DOMAIN registry, log |-> << >>]
    /\ cancelled' = IF has(id) THEN Insert(cancelled, id, Len(invoked[id])) ELSE cancelled
    /\ untouched' = untouched \ {id}
    /\ UNCHANGED <<id_generator, issued, given, invoked, aborted, engineVars, valueVars>>

\* DeferredManager::cancel
cancel(id) ==
    /\ ~aborted
    /\ registry' = Remove(registry, id)
    /\ mlast' = [op |-> "cancel", pre |-> registry, gen |-> id_generator, id |-> id, had |-> has(id), outcome |-> "Bool",
                 ret |-> id \in DOMAIN registry, log |-> << >>]
    /\ cancelled' = IF has(id) THEN Insert(cancelled, id, Len(invoked[id])) ELSE cancelled
    /\ untouched' = untouched \ {id}
    /\ UNCHANGED <<id_generator, issued, given, invoked, aborted, engineVars, valueVars>>

\* resume() that re-inserts the execution without asking can_resume()
manager_resume_reinserts(id) ==
    /\ ~aborted
    /\ IF id \in DOMAIN registry
       THEN LET r == resume(registry[id]) IN
            /\ registry' = IF r.outcome = "Some"
                           THEN Insert(registry, id, r.d)
                           ELSE Remove(registry, id)
            /\ invoked' = Invoked(id, r.log)
            /\ aborted' = (r.outcome = "Panic")
            /\ mlast' = [op |-> "resume", pre |-> registry, gen |-> id_generator, id |-> id, had |-> TRUE,
                         outcome |-> IF r.outcome = "Panic" THEN "Panic" ELSE "Bool",
                         ret |-> r.outcome = "Some", log |-> (id :> r.log)]
       ELSE /\ mlast' = [op |-> "resume", pre |-> registry, gen |-> id_generator, id |-> id, had |-> FALSE, outcome |-> "Bool",
                         ret |-> FALSE, log |-> << >>]
            /\ UNCHANGED <<registry, invoked, aborted>>
    /\ untouched' = untouched \ {id}
    /\ UNCHANGED <<id_generator, issued, given, cancelled, engineVars, valueVars>>

\* DeferredManager::resume
manager_resume(id) ==
    /\ ~aborted
    /\ IF id \in DOMAIN registry
       THEN LET r == resume(registry[id]) IN
            /\ registry' = IF r.outcome = "Some" /\ can_resume(r.d)
                           THEN Insert(registry, id, r.d)
                           ELSE Remove(registry, id)
            /\ invoked' = Invoked(id, r.log)
            /\ aborted' = (r.outcome = "Panic")
            /\ mlast' = [op |-> "resume", pre |-> registry, gen |-> id_generator, id |-> id, had |-> TRUE,
                         outcome |-> IF r.outcome = "Panic" THEN "Panic" ELSE "Bool",
                         ret |-> r.outcome = "Some", log |-> (id :> r.log)]
       ELSE /\ mlast' = [op |-> "resume", pre |-> registry, gen |-> id_generator, id |-> id, had |-> FALSE, outcome |-> "Bool",
                         ret |-> FALSE, log |-> << >>]
            /\ UNCHANGED <<registry, invoked, aborted>>
    /\ untouched' = untouched \ {id}
    /\ UNCHANGED <<id_generator, issued, given, cancelled, engineVars, valueVars>>

\* consume() that leaves the entry registered
manager_consume_keeps_entry(id) ==
    /\ ~aborted
    /\ IF id \in DOMAIN registry
       THEN LET r == consume(registry[id]) IN
            /\ UNCHANGED registry
            /\ invoked' = Invoked(id, r.log)
            /\ aborted' = (r.outcome = "Panic")
            /\ mlast' = [op |-> "consume", pre |-> registry, gen |-> id_generator, id |-> id, had |-> TRUE,
                         fresh |-> id \in untouched,
                         outcome |-> IF r.outcome = "Panic" THEN "Panic" ELSE "Option",
                         ret |-> Returned(r), log |-> (id :> r.log)]
       ELSE /\ mlast' = [op |-> "consume", pre |-> registry, gen |-> id_generator, id |-> id, had |-> FALSE,
                         fresh |-> id \in untouched, outcome |-> "Option",
                         ret |-> None, log |-> << >>]
            /\ UNCHANGED <<registry, invoked, aborted>>
    /\ untouched' = untouched \ {id}
    /\ UNCHANGED <<id_generator, issued, given, cancelled, engineVars, valueVars>>

\* consume() that unwraps the registry lookup: an unknown identifier panics
manager_consume_unwraps(id) ==
    /\ ~aborted
    /\ IF id \in DOMAIN registry
       THEN LET r == consume(registry[id]) IN
            /\ registry' = Remove(registry, id)
            /\ invoked' = Invoked(id, r.log)
            /\ aborted' = (r.outcome = "Panic")
            /\ mlast' = [op |-> "consume", pre |-> registry, gen |-> id_generator, id |-> id, had |-> TRUE,
                         fresh |-> id \in untouched,
                         outcome |-> IF r.outcome = "Panic" THEN "Panic" ELSE "Option",
                         ret |-> Returned(r), log |-> (id :> r.log)]
       ELSE /\ mlast' = [op |-> "consume", pre |-> registry, gen |-> id_generator, id |-> id, had |-> FALSE,
                         fresh |-> id \in untouched, outcome |-> "Panic",
                         ret |-> None, log |-> << >>]
            /\ aborted' = TRUE
            /\ UNCHANGED <<registry, invoked>>
    /\ untouched' = untouched \ {id}
    /\ UNCHANGED <<id_generator, issued, given, cancelled, engineVars, valueVars>>

\* DeferredManager::consume
manager_consume(id) ==
    /\ ~aborted
    /\ IF id \in DOMAIN registry
       THEN LET r == consume(registry[id]) IN
            /\ registry' = Remove(registry, id)
            /\ invoked' = Invoked(id, r.log)
            /\ aborted' = (r.outcome = "Panic")
            /\ mlast' = [op |-> "consume", pre |-> registry, gen |-> id_generator, id |-> id, had |-> TRUE,
                         fresh |-> id \in untouched,
                         outcome |-> IF r.outcome = "Panic" THEN "Panic" ELSE "Option",
                         ret |-> Returned(r), log |-> (id :> r.log)]
       ELSE /\ mlast' = [op |-> "consume", pre |-> registry, gen |-> id_generator, id |-> id, had |-> FALSE,
                         fresh |-> id \in untouched, outcome |-> "Option",
                         ret |-> None, log |-> << >>]
            /\ UNCHANGED <<registry, invoked, aborted>>
    /\ untouched' = untouched \ {id}
    /\ UNCHANGED <<id_generator, issued, given, cancelled, engineVars, valueVars>>

\* resume_all() that tests can_resume() before the resume() instead of after
resume_all_tests_before ==
    /\ ~aborted
    /\ LET r == [i \in DOMAIN registry |-> resume(registry[i])]
           kept == {i \in DOMAIN registry : r[i].outcome = "Some" /\ can_resume(registry[i])}
       IN  /\ registry' = [i \in kept |-> r[i].d]
           /\ invoked' = [i \in DOMAIN invoked |->
                             IF i \in DOMAIN registry
                             THEN invoked[i] \o [k \in 1..Len(r[i].log) |-> r[i].log[k].part]
                             ELSE invoked[i]]
           /\ aborted' = (\E i \in DOMAIN registry : r[i].outcome = "Panic")
           /\ mlast' = [op |-> "resume_all", pre |-> registry, gen |-> id_generator, id |-> -1, had |-> DOMAIN registry,
                        outcome |-> "Unit", ret |-> kept,
                        log |-> [i \in DOMAIN registry |-> r[i].log]]
    /\ untouched' = {}
    /\ UNCHANGED <<id_generator, issued, given, cancelled, engineVars, valueVars>>

\* resume_all() that keeps every execution its resume() returned
resume_all_keeps_returned ==
    /\ ~aborted
    /\ LET r == [i \in DOMAIN registry |-> resume(registry[i])]
           kept == {i \in DOMAIN registry : r[i].outcome = "Some"}
       IN  /\ registry' = [i \in kept |-> r[i].d]
           /\ invoked' = [i \in DOMAIN invoked |->
                             IF i \in DOMAIN registry
                             THEN invoked[i] \o [k \in 1..Len(r[i].log) |-> r[i].log[k].part]
                             ELSE invoked[i]]
           /\ aborted' = (\E i \in DOMAIN registry : r[i].outcome = "Panic")
           /\ mlast' = [op |-> "resume_all", pre |-> registry, gen |-> id_generator, id |-> -1, had |-> DOMAIN registry,
                        outcome |-> "Unit", ret |-> kept,
                        log |-> [i \in DOMAIN registry |-> r[i].log]]
    /\ untouched' = {}
    /\ UNCHANGED <<id_generator, issued, given, cancelled, engineVars, valueVars>>

\* DeferredManager::resume_all: every drained entry is resumed once and kept
\* when the call returned an execution that can still resume
resume_all ==
    /\ ~aborted
    /\ LET r == [i \in DOMAIN registry |-> resume(registry[i])]
           kept == {i \in DOMAIN registry : r[i].outcome = "Some" /\ can_resume(r[i].d)}
       IN  /\ registry' = [i \in kept |-> r[i].d]
           /\ invoked' = [i \in DOMAIN invoked |->
                             IF i \in DOMAIN registry
                             THEN invoked[i] \o [k \in 1..Len(r[i].log) |-> r[i].log[k].part]
                             ELSE invoked[i]]
           /\ aborted' = (\E i \in DOMAIN registry : r[i].outcome = "Panic")
           /\ mlast' = [op |-> "resume_all", pre |-> registry, gen |-> id_generator, id |-> -1, had |-> DOMAIN registry,
                        outcome |-> "Unit", ret |-> kept,
                        log |-> [i \in DOMAIN registry |-> r[i].log]]
    /\ untouched' = {}
    /\ UNCHANGED <<id_generator, issued, given, cancelled, engineVars, valueVars>>

\* DeferredManager::consume_all: the drained entries that can resume are
\* consumed, the others are dropped; the pairs come in the map's order, which
\* is unspecified, so the result is kept as a set.  When a consume() panics
\* the entries drained before it (any subset of the others) have run, and the
\* dropped Drain leaves the map empty.
consume_all ==
    /\ ~aborted
    /\ LET live == {i \in DOMAIN registry : can_resume(registry[i])}
           r == [i \in live |-> consume(registry[i])]
           bad == {i \in live : r[i].outcome = "Panic"}
       IN  /\ registry' = << >>
           /\ aborted' = (bad # {})
           /\ \E p \in (IF bad = {} THEN {-1} ELSE bad) :
              \E ran \in (IF bad = {} THEN {live} ELSE {x \cup {p} : x \in SUBSET (live \ bad)}) :
                 /\ invoked' = [i \in DOMAIN invoked |->
                                   IF i \in ran
                                   THEN invoked[i] \o [k \in 1..Len(r[i].log) |-> r[i].log[k].part]
                                   ELSE invoked[i]]
                 /\ mlast' = [op |-> "consume_all", pre |-> registry, gen |-> id_generator, id |-> -1, had |-> DOMAIN registry,
                              outcome |-> IF bad = {} THEN "Vec" ELSE "Panic",
                              ret |-> IF bad = {} THEN {<<i, r[i].value>> : i \in live} ELSE {},
                              log |-> [i \in ran |-> r[i].log]]
    /\ untouched' = {}
    /\ UNCHANGED <<id_generator, issued, given, cancelled, engineVars, valueVars>>

\* a manager starts empty; the engine variables are idle
Init ==
    /\ InitManager
    /\ d = None
    /\ orig = [state |-> 0, parts |-> <<>>]
    /\ ticks = 0
    /\ trace = <<>>
    /\ seen = <<>>
    /\ last = NoCall
    /\ InitNoValue

Next ==
    \/ \E deferred \in RunSet : run(deferred)
    \/ \E id \in Ids : cancel(id)
    \/ \E id \in Ids : manager_resume(id)
    \/ \E id \in Ids : manager_consume(id)
    \/ resume_all
    \/ consume_all

Spec == Init /\ [][Next]_vars

\* ------------------------------------------------------------------ Value
\* payload types a program boxes, and the payloads of each, as numbers
Types == {"i32", "String", "bool"}

Payloads == 0..MaxPayload

\* Box<Any>: the boxed payload with the TypeId of its concrete type
Box(ty, payload) == [type_id |-> ty, payload |-> payload]

\* Value::new, as the value! macro calls it
Value_new(inner) == [inner |-> inner]

\* Any::is::<U>
Any_is(inner, U) == inner.type_id = U

\* a downcast that does not compare the TypeId
downcast_unchecked(inner, U) == Some(inner.payload)

\* Any::downcast_ref::<U> and Any::downcast_mut::<U>
downcast(inner, U) == IF Any_is(inner, U) THEN Some(inner.payload) ELSE None

\* Option::unwrap_or_default in place of Option::unwrap
Option_unwrap_or_default(o) ==
    [outcome |-> "Value", value |-> IF o.some THEN o.value ELSE 0]

\* Option::unwrap. Result: [outcome: "Value" | "Panic", value]
Option_unwrap(o) ==
    IF o.some THEN [outcome |-> "Value", value |-> o.value] ELSE [outcome |-> "Panic"]

\* Value::is
Value_is(self, U) == Any_is(self.inner, U)

\* Value::get
Value_get(self, U) == downcast(self.inner, U)

\* Value::get_mut
Value_get_mut(self, U) == downcast(self.inner, U)

\* Value::into_cloned: Option::cloned of get()
Value_into_cloned(self, U) == Value_get(self, U)

\* Value::unwrap
Value_unwrap(self, U) == Option_unwrap(Value_get(self, U))

\* Value::unwrap_mut
Value_unwrap_mut(self, U) == Option_unwrap(Value_get_mut(self, U))

\* Value::consume
Value_consume(self, U) == Option_unwrap(Value_into_cloned(self, U))

\* an assignment through the &mut U that get_mut or unwrap_mut returned
Assign(self, w) == [self EXCEPT !.inner.payload = w]

\* let val = value!(payload)
InitValue ==
    /\ \E ty \in Types, payload \in Payloads : val = Some(Value_new(Box(ty, payload)))
    /\ vlast = NoCall
    /\ InitManager
    /\ d = None
    /\ orig = [state |-> 0, parts |-> <<>>]
    /\ ticks = 0
    /\ trace = <<>>
    /\ seen = <<>>
    /\ last = NoCall

\* what a call that may panic gave back
Unwrapped(r) == IF r.outcome = "Value" THEN Some(r.value) ELSE None

\* val.is::<U>()
CallIs(U) ==
    /\ val.some
    /\ vlast' = [op |-> "is", U |-> U, pre |-> val.value, outcome |-> "Bool",
                 ret |-> Value_is(val.value, U)]
    /\ UNCHANGED <<val, engineVars, managerVars>>

\* val.get::<U>()
CallGet(U) ==
    /\ val.some
    /\ vlast' = [op |-> "get", U |-> U, pre |-> val.value, outcome |-> "Option",
                 ret |-> Value_get(val.value, U)]
    /\ UNCHANGED <<val, engineVars, managerVars>>

\* if let Some(r) = val.get_mut::<U>() { *r = w }
CallGetMut(U, w) ==
    /\ val.some
    /\ LET r == Value_get_mut(val.value, U) IN
       /\ vlast' = [op |-> "get_mut", U |-> U, pre |-> val.value, outcome |-> "Option",
                    ret |-> r]
       /\ val' = IF r.some THEN Some(Assign(val.value, w)) ELSE val
    /\ UNCHANGED <<engineVars, managerVars>>

\* val.into_cloned::<U>()
CallIntoCloned(U) ==
    /\ val.some
    /\ vlast' = [op |-> "into_cloned", U |-> U, pre |-> val.value, outcome |-> "Option",
                 ret |-> Value_into_cloned(val.value, U)]
    /\ UNCHANGED <<val, engineVars, managerVars>>

\* val.unwrap::<U>() : a panic ends the program
CallUnwrap(U) ==
    /\ val.some
    /\ LET r == Value_unwrap(val.value, U) IN
       /\ vlast' = [op |-> "unwrap", U |-> U, pre |-> val.value, outcome |-> r.outcome,
                    ret |-> Unwrapped(r)]
       /\ val' = IF r.outcome = "Panic" THEN None ELSE val
    /\ UNCHANGED <<engineVars, managerVars>>

\* *val.unwrap_mut::<U>() = w
CallUnwrapMut(U, w) ==
    /\ val.some
    /\ LET r == Value_unwrap_mut(val.value, U) IN
       /\ vlast' = [op |-> "unwrap_mut", U |-> U, pre |-> val.value, outcome |-> r.outcome,
                    ret |-> Unwrapped(r)]
       /\ val' = IF r.outcome = "Panic" THEN None ELSE Some(Assign(val.value, w))
    /\ UNCHANGED <<engineVars, managerVars>>

\* val.consume::<U>() : the Value is moved into the call
CallValueConsume(U) ==
    /\ val.some
    /\ LET r == Value_consume(val.value, U) IN
       vlast' = [op |-> "consume", U |-> U, pre |-> val.value, outcome |-> r.outcome,
                 ret |-> Unwrapped(r)]
    /\ val' = None
    /\ UNCHANGED <<engineVars, managerVars>>

NextValue ==
    \/ \E U \in Types : CallIs(U)
    \/ \E U \in Types : CallGet(U)
    \/ \E U \in Types, w \in Payloads : CallGetMut(U, w)
    \/ \E U \in Types : CallIntoCloned(U)
    \/ \E U \in Types : CallUnwrap(U)
    \/ \E U \in Types, w \in Payloads : CallUnwrapMut(U, w)
    \/ \E U \in Types : CallValueConsume(U)

SpecValue == InitValue /\ [][NextValue]_vars

\* ------------------------------------------------------------------ a driver that keeps ticking
\* A program holds either one execution, which it keeps resuming, or a
\* manager, on which it keeps calling resume_all() between its run() calls.
InitLive == InitEngine \/ Init

\* the program holds a manager and no execution of its own
ManagerMode == ~d.some /\ last = NoCall

NextLive ==
    \/ CallResume
    \/ ManagerMode /\ \E deferred \in RunSet : run(deferred)
    \/ ManagerMode /\ resume_all

\* the driver of a manager does not stop calling resume_all()
SpecLive ==
    /\ InitLive
    /\ [][NextLive]_vars
    /\ WF_vars(ManagerMode /\ resume_all)

\* ------------------------------------------------------------------ claims
AllPlain(parts) == \A i \in 1..Len(parts) : parts[i].kind = "state"

\* fn(...f2(f1(s))...) for plain parts <<f1, .., fn>>
RECURSIVE Compose(_, _)
Compose(s, parts) ==
    IF parts = <<>> THEN s ELSE Compose(ApplyOp(Head(parts).op, s), Tail(parts))

\* number of parts still queued in an execution and in the nested
\* executions its context holds
RECURSIVE StepsLeft(_)
StepsLeft(self) ==
    Len(self.parts) + (IF is_deferred(self.context) THEN StepsLeft(self.context.deferred) ELSE 0)

\* parts with the nested part at position i replaced by a plain part yielding
\* the nested execution's initial state, followed by the nested parts
Inline(parts, i) ==
    SubSeq(parts, 1, i - 1) \o <<StatePart(parts[i].op)>> \o parts[i].parts
        \o SubSeq(parts, i + 1, Len(parts))

ExampleTwo == [state |-> 1, parts |-> <<StatePart("add1"), StatePart("add2")>>]

ExampleNested ==
    [state |-> 1,
     parts |-> <<StatePart("add1"), SubPart("id", InnerBody(2)), StatePart("add2")>>]

\* C1: consume() of a fresh execution whose parts all return plain states
\* returns the sequential composition of the parts applied to the initial
\* state (the initial state itself when there are no parts).
C1_ConsumeIsComposition ==
    (last.op = "consume" /\ ticks = 0 /\ AllPlain(orig.parts))
        => last.value = Some(Compose(orig.state, orig.parts))

C1_Witness ==
    /\ last.op = "consume" /\ ticks = 0
    /\ orig = ExampleTwo
    /\ last.value = Some(4)

\* C2: flattening law: consume() of a fresh chain returns the same final value
\* as consume() of the chain in which a part that returns a nested execution
\* is replaced by a plain part yielding the nested initial state followed by
\* the nested parts, for a nested part at any position and of any length.
C2_Flattening ==
    (last.op = "consume" /\ ticks = 0)
        => \A i \in 1..Len(orig.parts) :
              orig.parts[i].kind = "deferred"
                  => /\ last.value.some
                     /\ last.value = Returned(consume(new(orig.state, Inline(orig.parts, i))))

\* C3 as stated: can_resume() is false exactly when the context is a plain
\* state and the queue is empty, never while the context holds a nested
\* execution.
C3_Original ==
    d.some => (~can_resume(d.value)
                  <=> (is_state(d.value.context) /\ d.value.parts = <<>>))

\* C3 amended: can_resume() is false exactly when no part is queued in the
\* execution nor in any nested execution held by its context; the context may
\* then still hold an exhausted nested execution.
C3_NoPartLeft ==
    d.some => (~can_resume(d.value) <=> StepsLeft(d.value) = 0)

C3_Witness ==
    /\ d.some /\ ticks > 0
    /\ ~can_resume(d.value)
    /\ is_deferred(d.value.context)

\* C4: whenever can_resume() is true the next resume() returns an execution,
\* and consume() always returns a value.
C4_ResumeNeverFailsWhenResumable ==
    /\ (last.op = "resume" /\ can_resume(last.pre)) => last.outcome = "Some"
    /\ last.op = "consume" => last.outcome = "Value"

\* C5: a chain of n parts that all return plain states takes exactly n
\* resume() calls: after k of them state() is the composition of the first k
\* parts and can_resume() is true iff k < n; the call after the n-th returns
\* None.
C5_OneResumePerPart ==
    AllPlain(orig.parts) =>
        /\ ticks <= Len(orig.parts)
        /\ d.some =>
              /\ state(d.value) = Some(Compose(orig.state, SubSeq(orig.parts, 1, ticks)))
              /\ can_resume(d.value) <=> ticks < Len(orig.parts)
        /\ (last.op = "resume" /\ last.outcome # "Some")
              => (last.outcome = "None" /\ ticks = Len(orig.parts))

C5_Witness ==
    /\ orig = ExampleTwo
    /\ seen = <<Some(1), Some(2), Some(4)>>
    /\ ticks = 2
    /\ d.some /\ ~can_resume(d.value)

\* C6: a resume() call that returns an execution invoked exactly one part
\* whose result is a plain state, as its last invocation; every part invoked
\* before it in the call returned a nested execution, and a non-empty nested
\* execution has its first part invoked next within the same call.
C6_OnePlainResultPerCall ==
    (last.op = "resume" /\ last.outcome = "Some") =>
        LET n == Len(last.log) IN
        /\ n >= 1
        /\ last.log[n].result = "State"
        /\ \A i \in 1..(n - 1) :
              /\ last.log[i].result = "Deferred"
              /\ last.log[i].part.parts # <<>>
                    => last.log[i + 1].part = last.log[i].part.parts[1]

C6_Witness ==
    /\ orig = ExampleNested
    /\ seen = <<Some(1), Some(2), Some(4), Some(12), Some(14)>>
    /\ ticks = 4
    /\ last.op = "resume" /\ last.outcome = "Some"
    /\ d.some /\ ~can_resume(d.value)

\* C7: resume() on an execution whose can_resume() is false returns None and
\* invokes no part.
C7_ResumeOfTerminalIsNone ==
    (last.op = "resume" /\ ~can_resume(last.pre))
        => (last.outcome = "None" /\ last.log = <<>>)

C7_Witness ==
    /\ last.op = "resume"
    /\ ~can_resume(last.pre)
    /\ is_deferred(last.pre.context)
    /\ last.outcome = "None"

\* C8: registry round trip: run(d) returns an id with has(id) true at once;
\* consume(id), with nothing applied to id in between, gives what consuming d
\* directly gives, and has(id) is false afterwards.
C8_RegistryRoundTrip ==
    /\ mlast.op = "run" => has(mlast.ret)
    /\ (mlast.op = "consume" /\ mlast.fresh) =>
          LET direct == consume(given[mlast.id]) IN
          /\ direct.outcome = "Value"
                => (mlast.outcome = "Option" /\ mlast.ret = Some(direct.value))
          /\ direct.outcome = "Panic" => mlast.outcome = "Panic"
          /\ ~has(mlast.id)

C8_Witness ==
    /\ mlast.op = "consume" /\ mlast.fresh
    /\ given[mlast.id] = new(1, <<SubPart("id", InnerBody(2))>>)
    /\ mlast.ret = Some(6)
    /\ ~has(mlast.id)

\* C9: the identifiers returned by run() are strictly increasing in call
\* order, hence pairwise distinct, whatever was removed in between.
C9_IdsStrictlyIncreasing ==
    \A i, j \in 1..Len(issued) : i < j => issued[i] < issued[j]

C9_Witness ==
    /\ Len(issued) = 2
    /\ mlast.op = "run"
    /\ ~has(issued[1])
    /\ has(issued[2])

\* C10: cancel(id) on a registered id returns true and leaves has(id) false;
\* no part of that execution is invoked by the call nor by any later manager
\* operation.
C10_CancelStopsExecution ==
    /\ (mlast.op = "cancel" /\ mlast.had) => (mlast.ret = TRUE /\ ~has(mlast.id))
    /\ \A id \in DOMAIN cancelled : Len(invoked[id]) = cancelled[id]

C10_Witness ==
    /\ mlast.op = "resume_all"
    /\ mlast.had # {}
    /\ \E id \in DOMAIN cancelled : can_resume(given[id]) /\ invoked[id] = <<>>

\* the parts a call invoked, in order
LogParts(log) == [k \in 1..Len(log) |-> log[k].part]

\* number of parts of a log whose result was a plain state
PlainResults(log) == Cardinality({k \in 1..Len(log) : log[k].result = "State"})

\* parts queued by the nested executions that the parts of a log returned
RECURSIVE Queued(_)
Queued(log) ==
    IF log = <<>> THEN 0
    ELSE (IF Head(log).part.kind = "deferred" THEN Len(Head(log).part.parts) ELSE 0)
             + Queued(Tail(log))

\* parts left to invoke after a call that invoked `log` on execution `self`
Remaining(self, log) == StepsLeft(self) - Len(log) + Queued(log)

C12_ConsumeAllReturnsEveryId ==
    (mlast.op = "consume_all" /\ mlast.outcome = "Vec") =>
        /\ registry = << >>
        /\ mlast.ret = {<<i, consume(mlast.pre[i]).value>> : i \in DOMAIN mlast.pre}

\* C13: the manager's resume(id) that returns reports true exactly when the
\* identifier was registered immediately before the call.
C13_ResumeReportsFound ==
    (mlast.op = "resume" /\ mlast.outcome = "Bool") => (mlast.ret <=> mlast.had)

\* identifiers for which the last manager call returned a final value
ValuesReturned ==
    IF mlast.op = "consume" /\ mlast.outcome = "Option" /\ mlast.ret.some THEN {mlast.id}
    ELSE IF mlast.op = "consume_all" THEN {p[1] : p \in mlast.ret}
    ELSE {}

C15_Original == \A id \in DOMAIN registry : can_resume(registry[id])

\* C15: a registered execution is terminal only when it was handed to run()
\* in that condition and no manager call has touched it since; resume() and
\* resume_all() never leave a terminal execution registered.
C15_TerminalOnlyAsRegistered ==
    \A id \in DOMAIN registry :
        ~can_resume(registry[id]) =>
            /\ id \in untouched
            /\ registry[id] = given[id]
            /\ ~(mlast.op \in {"resume", "resume_all"} /\ id \in DOMAIN mlast.log)

C15_Witness ==
    /\ mlast.op \in {"resume", "resume_all"}
    /\ \E i \in DOMAIN mlast.pre :
          /\ can_resume(mlast.pre[i])
          /\ i \in DOMAIN mlast.log
          /\ mlast.log[i] # <<>>
          /\ ~has(i)
    /\ \E j \in DOMAIN registry : can_resume(registry[j]) /\ j \notin untouched

\* C16: cancel(id), resume(id) and consume(id) on an identifier that is not
\* registered return false, false and None; they do not panic, invoke no
\* part, and leave the registry and the identifier counter as they were.
C16_AbsentIdIsANegativeResult ==
    (mlast.op \in {"cancel", "resume", "consume"} /\ ~mlast.had) =>
        /\ mlast.id \notin DOMAIN mlast.pre
        /\ mlast.op = "cancel" => mlast.ret = FALSE
        /\ mlast.op = "resume" => mlast.ret = FALSE
        /\ mlast.op = "consume" => mlast.ret = None
        /\ mlast.outcome # "Panic"
        /\ ~aborted
        /\ mlast.log = << >>
        /\ registry = mlast.pre
        /\ id_generator = mlast.gen

\* consume() of an identifier that was issued and whose entry an earlier call
\* (not cancel) removed, while another execution is registered
C16_Witness ==
    /\ mlast.op = "consume"
    /\ ~mlast.had
    /\ \E k \in 1..Len(issued) : issued[k] = mlast.id
    /\ mlast.id \notin DOMAIN cancelled
    /\ registry # << >>

\* the order in which a queue of parts is invoked: every part, followed by
\* the parts of the nested execution it returns
RECURSIVE Flat(_)
Flat(parts) ==
    IF parts = <<>> THEN <<>>
    ELSE <<Head(parts)>>
             \o (IF Head(parts).kind = "deferred" THEN Flat(Head(parts).parts) ELSE <<>>)
             \o Flat(Tail(parts))

\* the parts an execution has still to invoke, innermost nested execution first
RECURSIVE Pending(_)
Pending(self) ==
    (IF is_deferred(self.context) THEN Pending(self.context.deferred) ELSE <<>>)
        \o Flat(self.parts)

\* C17: Context::state() on a context that holds a nested execution invokes
\* all the parts that execution has left, in order, and returns the value
\* they compute; on a plain state it returns the state and invokes nothing.
C17_ContextStateRunsToCompletion ==
    last.op = "context_state" =>
        IF is_state(last.pre)
        THEN /\ last.value = Some(last.pre.state)
             /\ last.log = <<>>
        ELSE /\ LogParts(last.log) = Pending(last.pre.deferred)
             /\ last.value = Some(Compose(state(last.pre.deferred).value,
                                          Pending(last.pre.deferred)))

\* the plain state at the bottom of the nested executions of a context
RECURSIVE Innermost(_)
Innermost(self) ==
    IF is_deferred(self.context) THEN Innermost(self.context.deferred) ELSE self.context.state

\* C18: state() of an execution is always present, at any depth of nesting:
\* it is the plain state of the innermost nested execution in progress, and
\* after a resume() it is what the invoked parts computed from the state
\* before the call.
C18_StateAlwaysPresent ==
    /\ d.some => /\ state(d.value).some
                 /\ state(d.value).value = Innermost(d.value)
    /\ (last.op = "resume" /\ last.outcome = "Some") =>
          /\ state(last.pre).some
          /\ state(d.value) = Some(Compose(state(last.pre).value, LogParts(last.log)))

\* two levels of nested execution in progress
C18_Witness ==
    /\ d.some
    /\ last.op = "resume"
    /\ is_deferred(d.value.context)
    /\ is_deferred(d.value.context.deferred.context)
    /\ d.value.context.deferred.parts = <<StatePart("mul3")>>
    /\ state(d.value) = Some(4)

\* C19: for a Value holding a payload of type T, is::<U>() is true exactly
\* for U = T; get, get_mut and into_cloned return the payload for U = T and
\* None otherwise; none of the four changes the stored type, and only an
\* assignment through get_mut changes the payload.
C19_CheckedAccessByType ==
    vlast.op \in {"is", "get", "get_mut", "into_cloned"} =>
        LET T == vlast.pre.inner.type_id
            payload == vlast.pre.inner.payload
        IN  /\ vlast.op = "is" => vlast.ret = (vlast.U = T)
            /\ vlast.op # "is" => vlast.ret = (IF vlast.U = T THEN Some(payload) ELSE None)
            /\ val.some
            /\ val.value.inner.type_id = T
            /\ (vlast.op # "get_mut" \/ vlast.U # T) => val.value = vlast.pre

\* get_mut with the payload's type, and a new payload written through it
C19_Witness ==
    /\ vlast.op = "get_mut"
    /\ vlast.U = "i32"
    /\ vlast.pre = Value_new(Box("i32", 1))
    /\ vlast.ret = Some(1)
    /\ val = Some(Value_new(Box("i32", 2)))

\* C20: unwrap, unwrap_mut and consume panic exactly when the requested type
\* differs from the payload's type, and return the payload otherwise.
C20_UncheckedAccessPanics ==
    vlast.op \in {"unwrap", "unwrap_mut", "consume"} =>
        LET T == vlast.pre.inner.type_id
            payload == vlast.pre.inner.payload
        IN  /\ vlast.outcome = "Panic" <=> vlast.U # T
            /\ vlast.U # T => vlast.ret = None
            /\ vlast.U = T => vlast.outcome = "Value" /\ vlast.ret = Some(payload)

\* unwrap::<String>() on a Value holding an i32
C20_Witness ==
    /\ vlast.op = "unwrap"
    /\ vlast.U = "String"
    /\ vlast.pre = Value_new(Box("i32", 1))
    /\ vlast.outcome = "Panic"
    /\ val = None

\* C21: a resume() call either returns an execution after invoking at least
\* one part, or returns None having invoked no part.
C21_NoStepLost ==
    last.op = "resume" =>
        /\ last.outcome = "Some" => last.log # <<>>
        /\ last.outcome # "Some" => last.log = <<>>

\* C22: resume() on an execution whose context holds an exhausted nested
\* execution and whose queue is not empty invokes the front part of the
\* queue as the first part of that call, with a plain state as input: the
\* collapse invokes nothing and does not end the call. When the call
\* returns, the state is what the invoked parts compute from the final value
\* of the nested execution; a plain front part leaves the rest of the queue.
C22_CollapseIsNotATick ==
    (/\ last.op = "resume"
     /\ is_deferred(last.pre.context)
     /\ ~can_resume(last.pre.context.deferred)
     /\ last.pre.parts # <<>>) =>
        /\ last.log # <<>>
        /\ last.log[1].part = Head(last.pre.parts)
        /\ last.log[1].input = "State"
        /\ last.outcome = "Some" =>
              /\ state(d.value)
                    = Some(Compose(Innermost(last.pre.context.deferred), LogParts(last.log)))
              /\ Head(last.pre.parts).kind = "state" =>
                    /\ Len(last.log) = 1
                    /\ d.value = [parts |-> Tail(last.pre.parts),
                                  context |-> State(ApplyOp(Head(last.pre.parts).op,
                                                  Innermost(last.pre.context.deferred)))]

\* the fourth resume() of the nested example: 12 collapses and becomes 14
C22_Witness ==
    /\ last.op = "resume"
    /\ orig = ExampleNested
    /\ last.pre = [parts |-> <<StatePart("add2")>>,
                   context |-> into([parts |-> <<>>, context |-> State(12)])]
    /\ last.outcome = "Some"
    /\ d = Some([parts |-> <<>>, context |-> State(14)])

\* C23: resume() on an execution whose context holds a nested execution that
\* can resume returns the execution with the nested one advanced by one
\* tick: the outer queue is as before, the context still holds the nested
\* execution, and only parts of the nested execution were invoked, exactly
\* one of them returning a plain state.
C23_DelegatedTick ==
    (/\ last.op = "resume"
     /\ is_deferred(last.pre.context)
     /\ can_resume(last.pre.context.deferred)) =>
        /\ last.outcome = "Some"
        /\ d.value.parts = last.pre.parts
        /\ is_deferred(d.value.context)
        /\ PlainResults(last.log) = 1
        /\ StepsLeft(d.value.context.deferred)
              = Remaining(last.pre.context.deferred, last.log)
        /\ state(d.value)
              = Some(Compose(Innermost(last.pre.context.deferred), LogParts(last.log)))

\* C24: the parts invoked since Deferred::new, under any sequence of
\* resume(), consume() and Context::state() calls, are an initial segment of
\* the supplied order - every part followed by the parts of the nested
\* execution it returned, then the next part - and the parts still to be
\* invoked are exactly the rest of that order: none twice, none out of turn.
C24_FifoOrder ==
    /\ Len(trace) <= Len(Flat(orig.parts))
    /\ trace = SubSeq(Flat(orig.parts), 1, Len(trace))
    /\ d.some => trace \o Pending(d.value) = Flat(orig.parts)

\* the nested example resumed once and then consumed
C24_Witness ==
    /\ orig = ExampleNested
    /\ last.op = "consume"
    /\ ticks = 1
    /\ trace = <<StatePart("add1"), SubPart("id", InnerBody(2)), StatePart("mul2"),
                 StatePart("mul3"), StatePart("add2")>>
    /\ last.value = Some(14)

\* C25: when an execution driven by resume() alone has reached a state where
\* can_resume() is false, state() is the value consume() returns for an
\* identical fresh execution; and the resume() calls lose the execution on
\* the way only for a chain on which consume() itself fails.
C25_ResumeLoopEqualsConsume ==
    LET direct == consume(new(orig.state, orig.parts)) IN
    /\ (last.op \in {"new", "resume"} /\ d.some /\ ~can_resume(d.value)) =>
          /\ direct.outcome = "Value"
          /\ state(d.value) = Some(direct.value)
    /\ (last.op = "resume" /\ can_resume(last.pre) /\ ~d.some) => direct.outcome = "Panic"

\* the nested example after its fourth resume()
C25_Witness ==
    /\ orig = ExampleNested
    /\ last.op = "resume"
    /\ ticks = 4
    /\ d.some
    /\ ~can_resume(d.value)
    /\ state(d.value) = Some(14)
    /\ consume(new(orig.state, orig.parts)).value = 14

\* C26: a step that is cancel(id), resume(id) or consume(id) leaves every
\* other identifier as it was: registered or not as before, with the same
\* execution (state and queued parts) and the same parts invoked so far; the
\* identifier counter keeps its value.
C26_OtherEntriesUntouched ==
    [][mlast'.op \in {"cancel", "resume", "consume"} =>
          /\ id_generator' = id_generator
          /\ DOMAIN invoked' = DOMAIN invoked
          /\ \A j \in Ids \ {mlast'.id} :
                /\ (j \in DOMAIN registry') <=> (j \in DOMAIN registry)
                /\ j \in DOMAIN registry => registry'[j] = registry[j]
                /\ j \in DOMAIN invoked => invoked'[j] = invoked[j]]_vars

\* consume(0) while execution 1, already advanced by a tick, stays registered
C26_Witness ==
    /\ mlast.op = "consume"
    /\ mlast.id = 0
    /\ mlast.had
    /\ mlast.ret.some
    /\ has(1)
    /\ invoked[1] # <<>>
    /\ can_resume(registry[1])

\* the executions that resume() calls alone lead to from an execution
RECURSIVE Trajectory(_)
Trajectory(self) ==
    {self} \cup (IF can_resume(self) /\ resume(self).outcome = "Some"
                 THEN Trajectory(resume(self).d)
                 ELSE {})

\* C27: whatever calls were made on the manager and on other identifiers, a
\* registered execution is one that resume() calls alone produce from the
\* execution handed to run(), the parts invoked for it are the first of its
\* own pending parts in order, and consume(id) gives what consume() gives
\* for the execution handed to run().
C27_InterleavingIndependence ==
    /\ \A id \in DOMAIN registry :
          /\ registry[id] \in Trajectory(given[id])
          /\ Len(invoked[id]) <= Len(Pending(given[id]))
          /\ invoked[id] = SubSeq(Pending(given[id]), 1, Len(invoked[id]))
          /\ invoked[id] \o Pending(registry[id]) = Pending(given[id])
    /\ (mlast.op = "consume" /\ mlast.had) =>
          LET direct == consume(given[mlast.id]) IN
          /\ direct.outcome = "Value"
                => (mlast.outcome = "Option" /\ mlast.ret = Some(direct.value))
          /\ direct.outcome = "Panic" => mlast.outcome = "Panic"
          /\ invoked[mlast.id] = SubSeq(Pending(given[mlast.id]), 1, Len(invoked[mlast.id]))

\* consume(1) of an execution ticked once by resume_all() or resume(1),
\* after execution 0 was ticked and then cancelled
C27_Witness ==
    /\ mlast.op = "consume"
    /\ mlast.id = 1
    /\ mlast.had
    /\ ~mlast.fresh
    /\ given[1] = new(1, <<SubPart("id", InnerBody(2))>>)
    /\ mlast.pre[1] # given[1]
    /\ mlast.ret = Some(6)
    /\ 0 \in DOMAIN cancelled
    /\ cancelled[0] > 0

\* every successful resume() leaves fewer parts to invoke, in a lone
\* execution and in every entry resume_all() keeps; no part is left exactly
\* when can_resume() is false; consume() returns or panics after invoking at
\* most the pending parts
C28_Variant ==
    /\ (last.op = "resume" /\ last.outcome = "Some") =>
          /\ last.log # <<>>
          /\ Len(Pending(d.value)) = Len(Pending(last.pre)) - Len(last.log)
    /\ d.some =>
          /\ can_resume(d.value) <=> Len(Pending(d.value)) > 0
          /\ consume(d.value).outcome \in {"Value", "Panic"}
          /\ Len(consume(d.value).log) <= Len(Pending(d.value))
    /\ mlast.op = "resume_all" =>
          \A i \in DOMAIN registry :
              /\ i \in DOMAIN mlast.pre
              /\ Len(Pending(registry[i])) < Len(Pending(mlast.pre[i]))

C29_PartsSeePlainState ==
    \A k \in 1..Len(last.log) : last.log[k].input = "State"

\* consume() of the fresh nested example: the part after the nested
\* execution runs on its collapsed final value
C29_Witness ==
    /\ orig = ExampleNested
    /\ last.op = "consume"
    /\ ticks = 0
    /\ Len(last.log) = 5
    /\ last.log[5].part = StatePart("add2")
    /\ last.log[5].input = "State"

====
